---- MODULE Spec2Model ----
(***************************************************************************)
(* The phonebook request handlers of mozillians/phonebook/views.py as a    *)
(* state machine.  The state is the profile store, the session, the task   *)
(* queue, the position of an account deletion in progress and the          *)
(* response to the last request.  Every handler is one action, except      *)
(* delete, which is one action per statement because its claim is about    *)
(* the order of its statements.                                            *)
(***************************************************************************)
EXTENDS Integers, Sequences, FiniteSets, TLC

VARIABLES profiles, session, tasks, pc, response

vars == <<profiles, session, tasks, pc, response>>

----------------------------------------------------------------------------
(* Data *)

\* Primary keys of the stored User/UserProfile pairs.
Pks == {1, 2}

\* request.user of a visitor who is not logged in (AnonymousUser).
Anonymous == 0

\* Usernames a request or a rename can name; "carol" has no record at start.
Usernames == {"alice", "bob", "carol"}

InitialUsername == [p \in Pks |-> IF p = 1 THEN "alice" ELSE "bob"]

\* The random username anonymize() gives a deleted account.
AnonymizedUsername == [p \in Pks |-> IF p = 1 THEN "anon1" ELSE "anon2"]

RequestUsernames == Usernames \cup {AnonymizedUsername[p] : p \in Pks}

Email == [p \in Pks |-> IF p = 1 THEN "alice@example.com" ELSE "bob@example.com"]

BasketToken == [p \in Pks |-> IF p = 1 THEN "token-1" ELSE "token-2"]

\* Privacy levels of mozillians.users.managers.
PUBLIC == "PUBLIC"
MOZILLIANS == "MOZILLIANS"
EMPLOYEES == "EMPLOYEES"
PRIVILEGED == "PRIVILEGED"
\* The level of request.user.userprofile as loaded, with no level applied.
Unfiltered == "UNFILTERED"

LOGIN_MESSAGE == "LOGIN_MESSAGE"
GET_VOUCHED_MESSAGE == "GET_VOUCHED_MESSAGE"

\* A stored profile with its user.  has_public: some field of the profile
\* has privacy PUBLIC, that is, the record is in the .public() queryset.
NewProfile(p, full_name, is_vouched, has_public) ==
    [username     |-> InitialUsername[p],
     email        |-> Email[p],
     basket_token |-> BasketToken[p],
     full_name    |-> full_name,
     is_vouched   |-> is_vouched,
     vouched_by   |-> Anonymous,
     has_public   |-> has_public,
     is_active    |-> TRUE]

FullNames == {"", "Full Name"}

----------------------------------------------------------------------------
(* Responses *)

NoMessages == << >>

NoResponse ==
    [handler |-> "none", request |-> [user |-> Anonymous], kind |-> "none",
     to |-> "", arg |-> "", status |-> 0, template |-> "",
     data |-> [none |-> TRUE], messages |-> NoMessages]

Redirect(handler, request, to, arg, messages) ==
    [handler |-> handler, request |-> request, kind |-> "redirect",
     to |-> to, arg |-> arg, status |-> 302, template |-> "",
     data |-> [none |-> TRUE], messages |-> messages]

Render(handler, request, template, data, status, messages) ==
    [handler |-> handler, request |-> request, kind |-> "render",
     to |-> "", arg |-> "", status |-> status, template |-> template,
     data |-> data, messages |-> messages]

NotFound(handler, request) ==
    [handler |-> handler, request |-> request, kind |-> "http404",
     to |-> "", arg |-> "", status |-> 404, template |-> "",
     data |-> [none |-> TRUE], messages |-> NoMessages]

BadRequest(handler, request) ==
    [handler |-> handler, request |-> request, kind |-> "bad_request",
     to |-> "", arg |-> "", status |-> 400, template |-> "",
     data |-> [none |-> TRUE], messages |-> NoMessages]

\* An exception the handler does not catch.
Uncaught(handler, request, exception) ==
    [handler |-> handler, request |-> request, kind |-> "exception",
     to |-> "", arg |-> exception, status |-> 500, template |-> "",
     data |-> [none |-> TRUE], messages |-> NoMessages]

\* A request is taken when no request is being handled and the response
\* to the last one has been sent.
Ready == pc = "idle" /\ response = NoResponse

\* The response goes out to the client and the request ends.
send_response ==
    /\ pc = "idle"
    /\ response # NoResponse
    /\ response' = NoResponse
    /\ UNCHANGED <<profiles, session, tasks, pc>>

----------------------------------------------------------------------------
(* Access *)

is_authenticated(user) == user # Anonymous

is_vouched(user) == is_authenticated(user) /\ profiles[user].is_vouched

is_complete(user) == profiles[user].full_name # ""

\* The access decorators: allow_public lets every visitor in,
\* allow_unvouched every logged-in user, and a handler with neither
\* only vouched users.
allow_public(user) == TRUE
allow_unvouched(user) == is_authenticated(user)
vouched_only(user) == is_vouched(user)

----------------------------------------------------------------------------
(* view_profile *)

\* UserProfile.objects.filter(user__username=username)
userprofile_query(username) == {p \in Pks : profiles[p].username = username}

\* request.GET.get('view_as', 'myself')
Absent == "<absent>"
ViewAsParams == {Absent, "myself", "anonymous", "mozillian", "employee",
                 "privileged", "bogus"}
GetViewAs(param) == IF param = Absent THEN "myself" ELSE param

\* A variant that previews the owner's profile one level too high.
OwnProfileLevelShifted(view_as) ==
    CASE view_as = "anonymous"  -> MOZILLIANS
      [] view_as = "mozillian"  -> EMPLOYEES
      [] view_as = "employee"   -> PRIVILEGED
      [] view_as = "privileged" -> PRIVILEGED
      [] OTHER                  -> Unfiltered

\* The branch for the owner: the level of the profile that is rendered.
OwnProfileLevel(view_as) ==
    CASE view_as = "anonymous"  -> PUBLIC
      [] view_as = "mozillian"  -> MOZILLIANS
      [] view_as = "employee"   -> EMPLOYEES
      [] view_as = "privileged" -> PRIVILEGED
      [] OTHER                  -> Unfiltered

IsOwnProfile(user, username) ==
    is_authenticated(user) /\ profiles[user].username = username

view_own_profile(request) ==
    LET view_as == GetViewAs(request.view_as)
    IN  Render("view_profile", request, "phonebook/profile.html",
               [profile      |-> request.user,
                shown_user   |-> request.user,
                level        |-> OwnProfileLevel(view_as),
                privacy_mode |-> view_as,
                vouch_form   |-> Anonymous],
               200, NoMessages)

\* UserProfile.privacy_level, the clearance of a viewer: a vouched user has
\* that of a Mozillian.  The clearances groups give are left out, as the
\* group memberships are.
privacy_level(user) == IF profiles[user].is_vouched THEN MOZILLIANS ELSE PUBLIC

\* The level set on another user's profile: PUBLIC, then the viewer's own
\* level when the viewer is logged in.
InstancePrivacyLevel(user) ==
    IF is_authenticated(user) THEN privacy_level(user) ELSE PUBLIC

\* data['vouch_form'], as the pk it is pre-filled with (Anonymous: no form).
VouchFormFor(user, p) ==
    IF ~profiles[p].is_vouched /\ is_authenticated(user) /\ is_vouched(user)
    THEN p ELSE Anonymous

\* if not public_profile_exists: if not request.user.is_authenticated()
LoginRequired(user, public_profile_exists) ==
    ~public_profile_exists /\ ~is_authenticated(user)

\* A variant that asks every visitor without a vouched profile to get
\* vouched, the logged-out visitor included.
VouchRequiredOfVisitors(user, public_profile_exists) ==
    ~public_profile_exists /\ ~is_vouched(user)

\* A variant that never asks the viewer to get vouched.
VouchNeverRequired(user, public_profile_exists) == FALSE

\* if not public_profile_exists: if not request.user.userprofile.is_vouched
VouchRequired(user, public_profile_exists) ==
    ~public_profile_exists /\ ~profiles[user].is_vouched

\* A variant that takes any stored record for a profile to show.
ProfileMissingIfNoRecord(profile_exists, profile_complete) == ~profile_exists

\* if not profile_exists or not profile_complete
ProfileMissing(profile_exists, profile_complete) ==
    ~profile_exists \/ ~profile_complete

\* A variant of the branch below with the vouch check ahead of the
\* authentication check.
view_other_profile_vouch_first(request) ==
    LET user == request.user
        query == userprofile_query(request.username)
        public_profile_exists == \E p \in query : profiles[p].has_public
        profile_exists == query # {}
        profile_complete == \E p \in query : profiles[p].full_name # ""
        profile == CHOOSE p \in query : TRUE
    IN  IF VouchRequiredOfVisitors(user, public_profile_exists)
        THEN Redirect("view_profile", request, "phonebook:home", "",
                      <<GET_VOUCHED_MESSAGE>>)
        ELSE IF LoginRequired(user, public_profile_exists)
        THEN Redirect("view_profile", request, "login", request.username,
                      <<LOGIN_MESSAGE>>)
        ELSE IF ProfileMissing(profile_exists, profile_complete)
        THEN NotFound("view_profile", request)
        ELSE Render("view_profile", request, "phonebook/profile.html",
                    [profile      |-> profile,
                     shown_user   |-> profile,
                     level        |-> InstancePrivacyLevel(user),
                     privacy_mode |-> "",
                     vouch_form   |-> VouchFormFor(user, profile)],
                    200, NoMessages)

\* The branch for a profile that is not the viewer's own.
view_other_profile(request) ==
    LET user == request.user
        query == userprofile_query(request.username)
        public_profile_exists == \E p \in query : profiles[p].has_public
        profile_exists == query # {}
        profile_complete == \E p \in query : profiles[p].full_name # ""
        profile == CHOOSE p \in query : TRUE
    IN  IF LoginRequired(user, public_profile_exists)
        THEN Redirect("view_profile", request, "login", request.username,
                      <<LOGIN_MESSAGE>>)
        ELSE IF VouchRequired(user, public_profile_exists)
        THEN Redirect("view_profile", request, "phonebook:home", "",
                      <<GET_VOUCHED_MESSAGE>>)
        ELSE IF ProfileMissing(profile_exists, profile_complete)
        THEN NotFound("view_profile", request)
        ELSE Render("view_profile", request, "phonebook/profile.html",
                    [profile      |-> profile,
                     shown_user   |-> profile,
                     level        |-> InstancePrivacyLevel(user),
                     privacy_mode |-> "",
                     vouch_form   |-> VouchFormFor(user, profile)],
                    200, NoMessages)

view_profile_response(request) ==
    IF IsOwnProfile(request.user, request.username)
    THEN view_own_profile(request)
    ELSE view_other_profile(request)

view_profile ==
    /\ Ready
    /\ allow_public(session)
    /\ \E username \in RequestUsernames, view_as \in ViewAsParams :
          response' = view_profile_response(
                          [user |-> session, username |-> username,
                           view_as |-> view_as])
    /\ UNCHANGED <<profiles, session, tasks, pc>>

----------------------------------------------------------------------------
(* login, logout and the session *)

\* The authentication backend opens a session for an active account.
Authenticate ==
    /\ Ready
    /\ \E user \in Pks :
          /\ profiles[user].is_active
          /\ session' = user
    /\ response' = NoResponse
    /\ UNCHANGED <<profiles, tasks, pc>>

login ==
    /\ Ready
    /\ allow_unvouched(session)
    /\ response' = IF is_complete(session)
                   THEN Redirect("login", [user |-> session],
                                 "phonebook:home", "", NoMessages)
                   ELSE Redirect("login", [user |-> session],
                                 "phonebook:profile_edit", "", NoMessages)
    /\ UNCHANGED <<profiles, session, tasks, pc>>

logout ==
    /\ Ready
    /\ allow_unvouched(session)
    /\ session' = Anonymous
    /\ response' = Redirect("logout", [user |-> session],
                            "phonebook:home", "", NoMessages)
    /\ UNCHANGED <<profiles, tasks, pc>>

----------------------------------------------------------------------------
(* edit_profile *)

\* request.POST of an edit request: empty, or the fields of the two forms.
\* An empty username or full name stands for a value the form rejects.
EmptyPost == [empty |-> TRUE, username |-> "", full_name |-> "",
              has_public |-> FALSE]
PostData == {EmptyPost} \cup
            [empty : {FALSE}, username : Usernames \cup {""},
             full_name : FullNames, has_public : BOOLEAN]

EditRequests ==
    {[method |-> "GET", POST |-> EmptyPost, FILES |-> FALSE]} \cup
    [method : {"POST"}, POST : PostData, FILES : BOOLEAN]

\* UserForm(request.POST or None, instance=user)
UserFormBound(req) == ~req.POST.empty
\* The username field is required and unique among the users.
UserFormClean(user, req) ==
    /\ req.POST.username # ""
    /\ \A p \in Pks \ {user} : profiles[p].username # req.POST.username
UserFormIsValid(user, req) == UserFormBound(req) /\ UserFormClean(user, req)
UserFormErrors(user, req) == UserFormBound(req) /\ ~UserFormClean(user, req)

\* form(request.POST or None, request.FILES or None, instance=profile, ...)
ProfileFormBound(req) == ~req.POST.empty \/ req.FILES
\* The full name is required.
ProfileFormClean(req) == req.POST.full_name # ""
ProfileFormIsValid(req) == ProfileFormBound(req) /\ ProfileFormClean(req)
ProfileFormErrors(req) == ProfileFormBound(req) /\ ~ProfileFormClean(req)

\* user_form.save() and profile_form.save()
SaveForms(user, req) ==
    [profiles EXCEPT ![user].username = req.POST.username,
                     ![user].full_name = req.POST.full_name,
                     ![user].has_public = req.POST.has_public]

\* The notice queued after a save.
EditMessages(user, req) ==
    IF ~is_complete(user) THEN <<"Your account has been created.">>
    ELSE IF req.POST.username # profiles[user].username
    THEN <<"You changed your username">>
    ELSE NoMessages

\* A variant that looks at the errors of the profile form alone.
EditStatusOfProfileForm(user, req) ==
    IF ProfileFormErrors(req) THEN 400 ELSE 200

\* If there are form errors, don't send a 200 OK.
EditStatus(user, req) ==
    IF ProfileFormErrors(req) \/ UserFormErrors(user, req) THEN 400 ELSE 200

edit_profile ==
    /\ Ready
    /\ allow_unvouched(session)
    /\ \E req \in EditRequests :
          LET user == session
              request == [user |-> user, method |-> req.method,
                          POST |-> req.POST, FILES |-> req.FILES]
          IN  IF UserFormIsValid(user, req) /\ ProfileFormIsValid(req)
              THEN /\ profiles' = SaveForms(user, req)
                   /\ response' = Redirect("edit_profile", request,
                                           "phonebook:profile_view",
                                           req.POST.username,
                                           EditMessages(user, req))
              ELSE /\ profiles' = profiles
                   /\ response' = Render("edit_profile", request,
                                         "phonebook/edit_profile.html",
                                         [profile |-> user],
                                         EditStatus(user, req), NoMessages)
    /\ UNCHANGED <<session, tasks, pc>>

----------------------------------------------------------------------------
(* delete *)

UnindexJob(user, public_index) ==
    [task |-> "unindex_objects", id |-> user, public_index |-> public_index,
     email |-> "", basket_token |-> ""]

BasketJob(user) ==
    [task |-> "remove_from_basket_task", id |-> user, public_index |-> FALSE,
     email |-> profiles[user].email,
     basket_token |-> profiles[user].basket_token]

\* UserProfile.anonymize(): the record stays, its personal data goes.
anonymize(user) ==
    [profiles EXCEPT ![user] = [username     |-> AnonymizedUsername[user],
                                email        |-> "",
                                basket_token |-> "",
                                full_name    |-> "",
                                is_vouched   |-> FALSE,
                                vouched_by   |-> Anonymous,
                                has_public   |-> FALSE,
                                is_active    |-> FALSE]]

\* unindex_objects.delay(UserProfile, [user.userprofile.id], public_index=False)
delete_167 ==
    /\ Ready
    /\ allow_unvouched(session)
    /\ tasks' = Append(tasks, UnindexJob(session, FALSE))
    /\ pc' = "delete_168"
    /\ response' = NoResponse
    /\ UNCHANGED <<profiles, session>>

\* unindex_objects.delay(UserProfile, [user.userprofile.id], public_index=True)
delete_168 ==
    /\ pc = "delete_168"
    /\ tasks' = Append(tasks, UnindexJob(session, TRUE))
    /\ pc' = "delete_169"
    /\ UNCHANGED <<profiles, session, response>>

\* A variant that anonymizes the profile first and reads the email and the
\* token of the mailing-list job afterwards.
delete_169_after_anonymize ==
    /\ pc = "delete_169"
    /\ profiles' = anonymize(session)
    /\ tasks' = Append(tasks,
                       [task |-> "remove_from_basket_task", id |-> session,
                        public_index |-> FALSE,
                        email |-> profiles'[session].email,
                        basket_token |-> profiles'[session].basket_token])
    /\ pc' = "delete_170"
    /\ UNCHANGED <<session, response>>

\* remove_from_basket_task.delay(user.email, user.userprofile.basket_token)
delete_169 ==
    /\ pc = "delete_169"
    /\ tasks' = Append(tasks, BasketJob(session))
    /\ pc' = "delete_170"
    /\ UNCHANGED <<profiles, session, response>>

\* user.userprofile.anonymize()
delete_170 ==
    /\ pc = "delete_170"
    /\ profiles' = anonymize(session)
    /\ pc' = "delete_172"
    /\ UNCHANGED <<session, tasks, response>>

\* auth.logout(request); return redirect('phonebook:home')
delete_172 ==
    /\ pc = "delete_172"
    /\ session' = Anonymous
    /\ pc' = "idle"
    /\ response' = Redirect("delete", [user |-> session],
                            "phonebook:home", "", NoMessages)
    /\ UNCHANGED <<profiles, tasks>>

----------------------------------------------------------------------------
(* vouch *)

\* The pk a vouch request can carry: a stored profile's, or no profile's.
VoucheeParams == Pks \cup {Cardinality(Pks) + 1}

\* UserProfile.vouch(vouched_by)
Vouch(p, vouched_by) ==
    [profiles EXCEPT ![p].is_vouched = TRUE, ![p].vouched_by = vouched_by]

\* A variant that sends the voucher to their own page.
VouchRedirectArgOfVoucher(user, p) == profiles[user].username

\* redirect('phonebook:profile_view', p.user.username)
VouchRedirectArg(user, p) == profiles[p].username

vouch ==
    /\ Ready
    /\ vouched_only(session)
    /\ \E form_is_valid \in BOOLEAN, vouchee \in VoucheeParams :
          LET request == [user |-> session, form_is_valid |-> form_is_valid,
                          vouchee |-> vouchee]
          IN  IF ~form_is_valid
              THEN /\ profiles' = profiles
                   /\ response' = BadRequest("vouch", request)
              ELSE IF vouchee \notin Pks
              THEN /\ profiles' = profiles
                   /\ response' = Uncaught("vouch", request, "DoesNotExist")
              ELSE /\ profiles' = Vouch(vouchee, session)
                   /\ response' = Redirect("vouch", request,
                                           "phonebook:profile_view",
                                           VouchRedirectArg(session, vouchee),
                                           <<"Thanks for vouching">>)
    /\ UNCHANGED <<session, tasks, pc>>

----------------------------------------------------------------------------
(* search *)

\* Bounds of the search requests.
MaxIndexed == 4
MaxLimit == 3
MaxPage == 5
\* forms.PAGINATION_LIMIT, scaled to the size of the index.
PAGINATION_LIMIT == 2

\* The documents of the search index, by the pk of their profile.  The
\* index is filled by the indexing tasks, apart from the profile store.
Indexed == 1..MaxIndexed
IndexedVouched(i) == i % 3 # 0
\* The documents of the public index: vouched and with a public field.
IndexedPublic(i) == i % 3 = 1
IndexedUsername(i) == "user" \o ToString(i)

GroupNames == {"python", "qa"}

RECURSIVE Sorted(_)
Sorted(S) ==
    IF S = {} THEN << >>
    ELSE LET least == CHOOSE x \in S : \A y \in S : x <= y
         IN  <<least>> \o Sorted(S \ {least})

\* UserProfile.search(query, public=..., include_non_vouched=...) over the
\* documents the query matches: the public index for a public search,
\* otherwise the private one, without the unvouched unless they are asked for.
UserProfileSearch(matches, public, include_non_vouched) ==
    IF public
    THEN Sorted({i \in matches : IndexedPublic(i)})
    ELSE Sorted({i \in matches : include_non_vouched \/ IndexedVouched(i)})

\* A variant that takes every logged-in user for a vouched one.
SearchIsPublicIfLoggedOut(user) == ~is_authenticated(user)

\* public = not (request.user.is_authenticated()
\*               and request.user.userprofile.is_vouched)
SearchIsPublic(user) ==
    ~(is_authenticated(user) /\ profiles[user].is_vouched)

\* groups: None, or Group.search(query) for a viewer who is not public.
NoGroups == [searched |-> FALSE, found |-> {}]
SearchGroups(public, group_matches) ==
    IF ~public THEN [searched |-> TRUE, found |-> group_matches] ELSE NoGroups

\* The page parameter: a string that int() rejects, or an integer.
NotAnInteger == [is_int |-> FALSE, n |-> 0]
PageParams == {NotAnInteger} \cup [is_int : {TRUE}, n : (-1)..MaxPage]

\* Paginator.num_pages, with orphans = 0 and allow_empty_first_page.
PaginatorNumPages(count, per_page) ==
    LET hits == IF count > 1 THEN count ELSE 1
    IN  (hits + per_page - 1) \div per_page

\* Paginator.validate_number: the exception it raises, "" for none.
ValidateNumber(page, num_pages) ==
    IF ~page.is_int THEN "PageNotAnInteger"
    ELSE IF page.n < 1 THEN "EmptyPage"
    ELSE IF page.n > num_pages /\ page.n # 1 THEN "EmptyPage"
    ELSE ""

\* Paginator.page(number)
PaginatorPage(object_list, per_page, page) ==
    LET count == Len(object_list)
        raised == ValidateNumber(page, PaginatorNumPages(count, per_page))
        bottom == (page.n - 1) * per_page
        top == IF bottom + per_page >= count THEN count ELSE bottom + per_page
    IN  IF raised # ""
        THEN [raised |-> raised, number |-> 0, object_list |-> << >>]
        ELSE [raised |-> "", number |-> page.n,
              object_list |-> SubSeq(object_list, bottom + 1, top)]

IntPage(n) == [is_int |-> TRUE, n |-> n]

\* A variant that falls back to the first page on EmptyPage too.
SearchPageFirstOnEmpty(object_list, per_page, page) ==
    LET first == PaginatorPage(object_list, per_page, page)
    IN  IF first.raised # ""
        THEN PaginatorPage(object_list, per_page, IntPage(1))
        ELSE first

\* try: paginator.page(page); except PageNotAnInteger: page(1);
\* except EmptyPage: page(num_pages)
SearchPage(object_list, per_page, page) ==
    LET first == PaginatorPage(object_list, per_page, page)
    IN  IF first.raised = "PageNotAnInteger"
        THEN PaginatorPage(object_list, per_page, IntPage(1))
        ELSE IF first.raised = "EmptyPage"
        THEN PaginatorPage(object_list, per_page,
                 IntPage(PaginatorNumPages(Len(object_list), per_page)))
        ELSE first

\* A variant that leaves the group matches out of the test.
SingleResultOfProfiles(found, groups) == Len(found) = 1

\* if profiles.count() == 1 and not groups
SingleResult(found, groups) == Len(found) = 1 /\ groups.found = {}

SearchTemplate(is_ajax) ==
    IF is_ajax THEN "search_ajax.html" ELSE "phonebook/search.html"

SearchRequests ==
    [form_is_valid : BOOLEAN, matches : SUBSET Indexed,
     include_non_vouched : BOOLEAN, limit : 1..MaxLimit, page : PageParams,
     group_matches : SUBSET GroupNames, is_ajax : BOOLEAN]

\* The response of search; data holds the template context and, for a
\* redirect too, what the handler computed on the way.
search_response(user, req) ==
    LET request == [user |-> user, form_is_valid |-> req.form_is_valid,
                    matches |-> req.matches,
                    include_non_vouched |-> req.include_non_vouched,
                    limit |-> req.limit, page |-> req.page,
                    group_matches |-> req.group_matches,
                    is_ajax |-> req.is_ajax]
        public == SearchIsPublic(user)
        found == UserProfileSearch(req.matches, public,
                                   req.include_non_vouched)
        groups == SearchGroups(public, req.group_matches)
        people == SearchPage(found, req.limit, req.page)
        show_pagination == Len(found) > PAGINATION_LIMIT
        data == [people |-> people.object_list, number |-> people.number,
                 public |-> public, found |-> found,
                 show_pagination |-> show_pagination,
                 num_pages |-> IF show_pagination
                               THEN PaginatorNumPages(Len(found), req.limit)
                               ELSE 0,
                 groups |-> groups]
    IN  IF ~req.form_is_valid
        THEN Render("search", request, SearchTemplate(req.is_ajax),
                    [people |-> << >>, number |-> 0, public |-> FALSE,
                     found |-> << >>, show_pagination |-> FALSE,
                     num_pages |-> 0, groups |-> NoGroups],
                    200, NoMessages)
        ELSE IF people.raised # ""
        THEN Uncaught("search", request, people.raised)
        ELSE IF SingleResult(found, groups)
        THEN IF people.object_list = << >>
             THEN Uncaught("search", request, "IndexError")
             ELSE [Redirect("search", request, "phonebook:profile_view",
                            IndexedUsername(people.object_list[1]),
                            NoMessages) EXCEPT !.data = data]
        ELSE Render("search", request, SearchTemplate(req.is_ajax), data,
                    200, NoMessages)

search ==
    /\ Ready
    /\ allow_public(session)
    /\ \E req \in SearchRequests : response' = search_response(session, req)
    /\ UNCHANGED <<profiles, session, tasks, pc>>

----------------------------------------------------------------------------
(* Specification *)

Init ==
    /\ \E full_name \in [Pks -> FullNames], vouched \in [Pks -> BOOLEAN],
          has_public \in [Pks -> BOOLEAN] :
          profiles = [p \in Pks |-> NewProfile(p, full_name[p], vouched[p],
                                               has_public[p])]
    /\ session \in Pks \cup {Anonymous}
    /\ tasks = << >>
    /\ Ready
    /\ response = NoResponse

Next ==
    \/ send_response
    \/ Authenticate
    \/ login
    \/ logout
    \/ view_profile
    \/ edit_profile
    \/ delete_167
    \/ delete_168
    \/ delete_169
    \/ delete_170
    \/ delete_172
    \/ vouch

Spec == Init /\ [][Next]_vars

\* The search handler, for each kind of viewer: a vouched user, an unvouched
\* user and a visitor who is not logged in.
SearchInit ==
    /\ profiles = [p \in Pks |-> NewProfile(p, "Full Name", p = 1, TRUE)]
    /\ session \in Pks \cup {Anonymous}
    /\ tasks = << >>
    /\ Ready
    /\ response = NoResponse

SearchNext ==
    \/ send_response
    \/ Authenticate
    \/ logout
    \/ search

SearchSpec == SearchInit /\ [][SearchNext]_vars

----------------------------------------------------------------------------
(* Properties of view_profile *)

\* The stored profiles a requested username names.
Named(username) == {p \in Pks : profiles[p].username = username}

\* The username has no record, or a record whose full name is empty.
NoCompletedProfile(username) ==
    \A p \in Named(username) : profiles[p].full_name = ""

NoPublicProjection(username) ==
    \A p \in Named(username) : ~profiles[p].has_public

ViewerIsOwner ==
    /\ response.request.user # Anonymous
    /\ profiles[response.request.user].username = response.request.username

ViewerIsVouched ==
    /\ response.request.user # Anonymous
    /\ profiles[response.request.user].is_vouched

\* C1, as stated: viewing a username with no completed profile gives "not
\* found" whoever the viewer is.
C1_NotFoundForEveryViewer ==
    (response.handler = "view_profile"
        /\ NoCompletedProfile(response.request.username))
    => response.kind = "http404"

\* C1, amended: viewing a username with no completed profile never renders
\* a page for a viewer who is not its owner, and gives "not found" whenever
\* that viewer is vouched or the profile has a public projection; without a
\* public projection a logged-out viewer is sent to the login page and an
\* unvouched one home, and the owner of an incomplete profile is shown
\* their own page.
C1_NotFoundAfterAccessChecks ==
    (response.handler = "view_profile"
        /\ NoCompletedProfile(response.request.username))
    => /\ ~ViewerIsOwner => response.kind # "render"
       /\ (~ViewerIsOwner
             /\ (ViewerIsVouched
                   \/ ~NoPublicProjection(response.request.username)))
          => response.kind = "http404"
       /\ (NoPublicProjection(response.request.username)
             /\ response.request.user = Anonymous)
          => (response.kind = "redirect" /\ response.to = "login")
       /\ (NoPublicProjection(response.request.username)
             /\ ~ViewerIsOwner /\ response.request.user # Anonymous
             /\ ~ViewerIsVouched)
          => (response.kind = "redirect" /\ response.to = "phonebook:home")
       /\ ViewerIsOwner => response.kind = "render"

\* A vouched viewer asks for another user's incomplete profile and for a
\* username with no record, and is told "not found".
C1_Witness ==
    /\ response.handler = "view_profile"
    /\ response.kind = "http404"
    /\ ViewerIsVouched
    /\ Named(response.request.username) # {}
    /\ NoCompletedProfile(response.request.username)

\* C2: a logged-out viewer of a profile with no public projection is sent
\* to the login page, with LOGIN_MESSAGE and the profile as the destination;
\* no logged-out viewer is ever sent home with GET_VOUCHED_MESSAGE.
C2_LoginBeforeVouch ==
    (response.handler = "view_profile" /\ response.request.user = Anonymous)
    => /\ NoPublicProjection(response.request.username)
          => /\ response.kind = "redirect"
             /\ response.to = "login"
             /\ response.arg = response.request.username
             /\ response.messages = <<LOGIN_MESSAGE>>
       /\ response.messages # <<GET_VOUCHED_MESSAGE>>
       /\ ~(response.kind = "redirect" /\ response.to = "phonebook:home")

C2_Witness ==
    /\ response.handler = "view_profile"
    /\ response.request.user = Anonymous
    /\ Named(response.request.username) # {}
    /\ NoPublicProjection(response.request.username)
    /\ response.to = "login"

\* C3: a logged-in viewer who is not vouched and asks for another user's
\* profile with no public projection is sent home with GET_VOUCHED_MESSAGE
\* as the message, and no profile is rendered.
C3_UnvouchedSentHome ==
    (response.handler = "view_profile"
        /\ response.request.user # Anonymous
        /\ ~ViewerIsVouched
        /\ ~ViewerIsOwner
        /\ NoPublicProjection(response.request.username))
    => /\ response.kind = "redirect"
       /\ response.to = "phonebook:home"
       /\ response.messages = <<GET_VOUCHED_MESSAGE>>
       /\ response.template = ""

C3_Witness ==
    /\ response.handler = "view_profile"
    /\ response.request.user # Anonymous
    /\ ~ViewerIsVouched
    /\ ~ViewerIsOwner
    /\ Named(response.request.username) # {}
    /\ \A p \in Named(response.request.username) : profiles[p].full_name # ""
    /\ NoPublicProjection(response.request.username)
    /\ response.messages = <<GET_VOUCHED_MESSAGE>>

\* The level each value of view_as stands for.
PreviewLevel ==
    [v \in ViewAsParams |->
        IF v = "anonymous" THEN "PUBLIC"
        ELSE IF v = "mozillian" THEN "MOZILLIANS"
        ELSE IF v = "employee" THEN "EMPLOYEES"
        ELSE IF v = "privileged" THEN "PRIVILEGED"
        ELSE "UNFILTERED"]

\* C4: the owner's own profile is rendered at the level view_as selects and
\* nothing else: unfiltered when view_as is absent, "myself" or unknown, the
\* PUBLIC projection and no more for "anonymous", and the MOZILLIANS,
\* EMPLOYEES and PRIVILEGED projections for the other three values.
C4_OwnerPreview ==
    (response.handler = "view_profile" /\ ViewerIsOwner)
    => /\ response.kind = "render"
       /\ response.data.profile = response.request.user
       /\ response.data.shown_user = response.request.user
       /\ response.data.level = PreviewLevel[response.request.view_as]
       /\ response.request.view_as = "anonymous"
          => response.data.level = "PUBLIC"

\* An unvouched owner with no public field previews the public projection.
C4_Witness ==
    /\ response.handler = "view_profile"
    /\ ViewerIsOwner
    /\ ~ViewerIsVouched
    /\ response.request.view_as = "anonymous"
    /\ response.data.level = "PUBLIC"

----------------------------------------------------------------------------
(* Properties of delete *)

Enqueued(job) == \E i \in 1..Len(tasks) : tasks[i] = job

\* The three jobs of the deletion of p, with the id, the email and the
\* token p had before it was anonymized.
JobsOfDeletion(p) ==
    {[task |-> "unindex_objects", id |-> p, public_index |-> FALSE,
      email |-> "", basket_token |-> ""],
     [task |-> "unindex_objects", id |-> p, public_index |-> TRUE,
      email |-> "", basket_token |-> ""],
     [task |-> "remove_from_basket_task", id |-> p, public_index |-> FALSE,
      email |-> Email[p], basket_token |-> BasketToken[p]]}

Anonymized(p) == ~profiles[p].is_active /\ profiles[p].email = ""

\* C5: when delete comes to anonymize the profile, the three jobs are in
\* the queue and the profile still has its data; a profile is anonymized
\* only with its three jobs enqueued, and they carry its id, email and
\* token of before; when delete comes to log out, the profile is
\* anonymized and the session is still the user's; the response is a
\* redirect home, with the session ended.
C5_DeleteOrder ==
    /\ pc = "delete_170"
       => /\ \A job \in JobsOfDeletion(session) : Enqueued(job)
          /\ ~Anonymized(session)
          /\ profiles[session].email = Email[session]
    /\ \A p \in Pks :
          Anonymized(p) => \A job \in JobsOfDeletion(p) : Enqueued(job)
    /\ \A i \in 1..Len(tasks) :
          tasks[i].task = "remove_from_basket_task"
          => /\ tasks[i].email = Email[tasks[i].id]
             /\ tasks[i].basket_token = BasketToken[tasks[i].id]
    /\ pc = "delete_172" => (session # Anonymous /\ Anonymized(session))
    /\ response.handler = "delete"
       => /\ response.kind = "redirect"
          /\ response.to = "phonebook:home"
          /\ session = Anonymous
          /\ Anonymized(response.request.user)

\* An account has been deleted and the handler has answered.
C5_Witness ==
    /\ response.handler = "delete"
    /\ Len(tasks) = 3
    /\ Anonymized(response.request.user)

----------------------------------------------------------------------------
(* Properties of vouch *)

----------------------------------------------------------------------------
(* Properties of edit_profile *)

\* The username of an edit request is missing or taken by another user.
UsernameRejected(request) ==
    \/ request.POST.username = ""
    \/ \E p \in Pks \ {request.user} :
          profiles[p].username = request.POST.username

FullNameRejected(request) == request.POST.full_name = ""

\* The step is the handling of an edit request.
EditHandled == response = NoResponse /\ response'.handler = "edit_profile"

----------------------------------------------------------------------------
(* Properties of search *)

\* The step before was a search with a valid form.
Searched == response.handler = "search" /\ response.request.form_is_valid

SearcherIsVouched ==
    /\ response.request.user # Anonymous
    /\ profiles[response.request.user].is_vouched

\* The documents of a sequence of results.
Range(seq) == {seq[i] : i \in 1..Len(seq)}

\* C6: a viewer who is logged out or not vouched gets the matches of the
\* public index, whatever include_non_vouched is, and no group search is
\* made for them; the group search is made if and only if the viewer is
\* logged in and vouched.
C6_PublicSearch ==
    (Searched /\ response.kind # "exception")
    => /\ ~SearcherIsVouched
          => /\ Range(response.data.found)
                   = {i \in response.request.matches : i % 3 = 1}
             /\ response.data.public
             /\ response.data.groups = [searched |-> FALSE, found |-> {}]
       /\ response.data.groups.searched <=> SearcherIsVouched
       /\ SearcherIsVouched
          => response.data.groups.found = response.request.group_matches

\* An unvouched user asks for the unvouched too, with matches outside the
\* public index and groups that match, and gets the public matches alone.
C6_Witness ==
    /\ Searched
    /\ response.kind = "render"
    /\ response.request.user # Anonymous
    /\ ~SearcherIsVouched
    /\ response.request.include_non_vouched
    /\ response.request.group_matches # {}
    /\ response.request.matches = {1, 2, 3, 4}
    /\ response.data.found = <<1, 4>>

\* C7: a search with a valid form is answered with a redirect to the page
\* of the one profile found, and without the results page, when exactly one
\* profile matches and no group does (none was searched for, or none was
\* found); with any other number of profiles, or with a group that
\* matches, it is not answered with a redirect.
C7_SingleResultRedirect ==
    (Searched /\ response.kind # "exception")
    => IF Len(response.data.found) = 1 /\ response.data.groups.found = {}
       THEN /\ response.kind = "redirect"
            /\ response.to = "phonebook:profile_view"
            /\ response.arg = "user" \o ToString(response.data.found[1])
            /\ response.template = ""
       ELSE /\ response.kind = "render"
            /\ response.to = ""

\* A public search with one match redirects although groups match the
\* query and a page beyond the first is asked for.
C7_Witness ==
    /\ Searched
    /\ response.kind = "redirect"
    /\ Len(response.data.found) = 1
    /\ ~response.data.groups.searched
    /\ response.request.group_matches # {}
    /\ response.request.page.n > 1

\* The last page of count results, per_page to a page.
LastPage(count, per_page) ==
    IF count = 0 THEN 1
    ELSE CHOOSE n \in 1..count :
            (n - 1) * per_page < count /\ count <= n * per_page

\* The results on page number.
Slice(found, per_page, number) ==
    {found[i] : i \in {k \in 1..Len(found) :
                          (number - 1) * per_page < k /\ k <= number * per_page}}

\* C10: a search with a valid form never fails over its page parameter: a
\* page that is no integer is served as page 1, a page below 1 or beyond
\* the last page as the last page, and any other page as asked.
C10_PageFallback ==
    Searched
    => LET page == response.request.page
           per_page == response.request.limit
           last == LastPage(Len(response.data.found), per_page)
           served == IF ~page.is_int THEN 1
                     ELSE IF page.n < 1 \/ page.n > last THEN last
                     ELSE page.n
       IN  /\ response.kind # "exception"
           /\ response.data.number = served
           /\ Range(response.data.people)
                 = Slice(response.data.found, per_page, served)
           /\ Len(response.data.people) <= per_page

\* A page beyond the last of several pages is served as the last page.
C10_Witness ==
    /\ Searched
    /\ response.kind = "render"
    /\ response.request.page.is_int
    /\ response.request.page.n > response.data.number
    /\ response.data.number > 1
    /\ response.data.people # << >>

====
